---- MODULE Spec2Model ----
(***************************************************************************)
(* Model of the Reddit analyzer bot (src/bot.py): the processed-posts      *)
(* ledger and its backing file, RedditAnalyzer.fetch_posts, the per-source *)
(* loop of TelegramBot._perform_analysis, the trigger handlers, the        *)
(* message splitter TelegramBot._send_long_message, the list of subreddits *)
(* of Config with subreddits.txt, and RedditAnalyzer.analyze_posts_batch.  *)
(***************************************************************************)
EXTENDS Integers, Sequences, FiniteSets, TLC

(***************************************************************************)
(* Text.  A Python str is a sequence of one-character strings.  Only the   *)
(* line break is distinguished by the splitter; "x" stands for any other   *)
(* character.                                                              *)
(***************************************************************************)
NL == "\n"

\* max_length = 4096 in _send_long_message
max_length == 4096

\* the literal "<b>...continued</b>\n\n" of the f-string in _send_long_message
continued ==
    << "<", "b", ">", ".", ".", ".", "c", "o", "n", "t", "i", "n", "u", "e", "d",
       "<", "/", "b", ">", NL, NL >>

\* bound: number of lines of an input text
MaxLines == 3

\* lengths of the lines the input texts are built from: the lengths around
\* the cut point and around the room the continuation marker needs
LineLens ==
    { 0, 1,
      max_length - Len(continued), max_length - Len(continued) + 1,
      max_length - 1, max_length, max_length + 1 }

Line(n) == [i \in 1..n |-> "x"]

RECURSIVE JoinLines(_)
JoinLines(lens) ==
    IF Len(lens) = 1 THEN Line(lens[1])
    ELSE Line(lens[1]) \o <<NL>> \o JoinLines(Tail(lens))

InputTexts ==
    { JoinLines(lens) : lens \in UNION { [1..k -> LineLens] : k \in 1..MaxLines } }

\* Python slices text[:k] and text[k:] (0-based, clipped to the length)
Prefix(s, k) == SubSeq(s, 1, IF k < Len(s) THEN k ELSE Len(s))
Suffix(s, k) == SubSeq(s, k + 1, Len(s))

\* str.rfind: 0-based index of the last occurrence of c, or -1
rfind(s, c) ==
    LET hits == { i \in 1..Len(s) : s[i] = c }
    IN  IF hits = {} THEN -1
        ELSE (CHOOSE i \in hits : \A j \in hits : j <= i) - 1

\* the whitespace characters str.strip removes that the texts here contain
Whitespace == {" ", NL}

\* str.strip: the text without its leading and trailing whitespace
RECURSIVE lstrip(_)
lstrip(s) ==
    IF s # << >> /\ Head(s) \in Whitespace THEN lstrip(Tail(s)) ELSE s

RECURSIVE rstrip(_)
rstrip(s) ==
    IF s # << >> /\ s[Len(s)] \in Whitespace
    THEN rstrip(SubSeq(s, 1, Len(s) - 1))
    ELSE s

strip(s) == rstrip(lstrip(s))

\* str.split(sep) for a one-character separator: the pieces between the
\* occurrences of sep, empty pieces included
RECURSIVE split(_, _)
split(s, sep) ==
    LET hits == { i \in 1..Len(s) : s[i] = sep }
    IN  IF hits = {} THEN << s >>
        ELSE LET i == CHOOSE k \in hits : \A j \in hits : k <= j
             IN  << SubSeq(s, 1, i - 1) >> \o split(SubSeq(s, i + 1, Len(s)), sep)

\* sep.join(list) for a one-character separator
RECURSIVE join(_, _)
join(list, sep) ==
    IF list = << >> THEN << >>
    ELSE IF Len(list) = 1 THEN list[1]
    ELSE list[1] \o << sep >> \o join(Tail(list), sep)

\* [x.strip() for x in pieces if x.strip()]
RECURSIVE StrippedNonEmpty(_)
StrippedNonEmpty(pieces) ==
    IF pieces = << >> THEN << >>
    ELSE IF strip(Head(pieces)) # << >>
         THEN << strip(Head(pieces)) >> \o StrippedNonEmpty(Tail(pieces))
         ELSE StrippedNonEmpty(Tail(pieces))

(***************************************************************************)
(* Bounds and data of the ledger / run model                               *)
(***************************************************************************)

\* bound: number of analysis threads (timer-driven or on-demand) per process
MaxRuns == 2

\* bound: number of process crashes followed by a restart
MaxCrashes == 1

\* bound: submissions the provider yields in one listing; the code caps a
\* listing at limit = 8 (fetch_posts(subreddit, limit=8))
MaxListed == 2

\* bound: number of segments a summary is split into
MaxSegs == 2

Runs == 1..MaxRuns

\* submission identifiers
Ids == {"abc", "def"}

\* submission.score values on both sides of `submission.score > 5`
Scores == {5, 6}

\* len(comments) values on both sides of `len(comments) > 2`
CommentCounts == {2, 3}

\* a subreddit name is a str, like every text a sequence of characters
Python == << "P", "y", "t", "h", "o", "n" >>

MachineLearning ==
    << "M", "a", "c", "h", "i", "n", "e", "L", "e", "a", "r", "n", "i", "n", "g" >>

Programming == << "P", "r", "o", "g", "r", "a", "m", "m", "i", "n", "g" >>

\* Config._load_subreddits, the list used when subreddits.txt is missing
DefaultSubreddits == << Python, MachineLearning, Programming >>

\* a subreddits.txt that names one subreddit
SingleSubreddit == << Python >>

NoSubmission == [id |-> "", stale |-> FALSE, score |-> 0, n_comments |-> 0]
NoAnalysis == [kind |-> "none", segs |-> 0]

\* the ids of a list of post_data dicts; a post_data is modelled by its 'id'
PostIds(ps) == { ps[i] : i \in 1..Len(ps) }

VARIABLES
    orig,        \* the text argument _send_long_message was called with
    text,        \* the local `text`, rebound by the splitting loop
    parts,       \* the local list `parts`
    part_i,      \* index of the next part the sending loop delivers (0-based)
    sent_texts,  \* the texts passed to bot.send_message, in order
    spc,         \* position in _send_long_message
    subreddits,       \* Config.subreddits
    processed_posts,  \* RedditAnalyzer.processed_posts, the in-memory ledger
    file,             \* the identifiers stored in processed_posts.txt
    lock,             \* RedditAnalyzer.lock: 0 when free, else the holding run
    save_error_logged,\* "Failed to save processed posts" was logged
    run,              \* per analysis thread: position and locals
    hpc,              \* position of the /analyze command handler
    crashes,          \* number of crashes so far
    returned,         \* history: per id, how many fetch_posts results of this
                      \* process contained it (counted up to 2)
    accepted_before,  \* history: ids that were in the ledger of an earlier
                      \* incarnation of the process when it crashed
    subreddits_file,  \* subreddits.txt: whether it exists, and its text
    config_save_failed,\* the last _save_subreddits raised
    batch,            \* the argument `posts` of a call of analyze_posts_batch
    service,          \* what chat.completions.create does in that call
    analysis_value,   \* what the call returned
    service_calls,    \* how often the call invoked chat.completions.create
    apc,              \* position of the call
    post_comments,    \* post['comments'] of the post the prompt loop is at
    top_comments      \* the comments lines 228-229 wrote for that post

splitVars == << orig, text, parts, part_i, sent_texts, spc >>

analyzeVars == << batch, service, analysis_value, service_calls, apc,
                 post_comments, top_comments >>

runVars == << subreddits, processed_posts, file, lock, save_error_logged, run,
              hpc, crashes, returned, accepted_before,
              subreddits_file, config_save_failed,
              batch, service, analysis_value, service_calls, apc,
              post_comments, top_comments >>

vars == << orig, text, parts, part_i, sent_texts, spc,
           subreddits, processed_posts, file, lock, save_error_logged, run,
           hpc, crashes, returned, accepted_before,
           subreddits_file, config_save_failed,
           batch, service, analysis_value, service_calls, apc,
           post_comments, top_comments >>

\* the list object a for loop iterates is the one config.subreddits names
BoundList == [bound |-> TRUE, items |-> << >>]

\* a thread that has not been started
IdleRun ==
    [ pc |-> "idle", kind |-> "none",
      sub_it |-> 0,              \* list-iterator index of `for subreddit in ...`
      iterated |-> BoundList,    \* the list object of that iterator: the one
                                 \* config.subreddits names, or the items of
                                 \* a list set_subreddits has replaced
      common |-> {},             \* history: the names in the list ever since
                                 \* the for loop began
      subreddit |-> << >>,       \* loop variable of _perform_analysis
      n_listed |-> 0,            \* submissions yielded so far by subreddit.hot
      cur |-> NoSubmission,      \* loop variable `submission` of fetch_posts
      posts |-> << >>,           \* local `posts` of fetch_posts
      ledger_at_call |-> {},     \* history: the ledger when fetch_posts was called
      saved |-> "none",          \* how _save_processed_posts ended in the
                                 \* current fetch_posts call: "ok", "failed"
      stored_at_open |-> {},     \* history: processed_posts.txt as it was
                                 \* when the save under way opened it
      result |-> << >>,          \* `posts` of _perform_analysis
      analysis |-> NoAnalysis,
      seg_i |-> 0,
      summary_lines |-> << >>,
      total_new_posts |-> 0,
      sent |-> << >>,            \* messages delivered to the chat by this run
                                 \* since its for loop last advanced
      errors |-> {},             \* logger.error records of this run
      exc |-> "none" ]           \* the exception that ended the thread

(***************************************************************************)
(* Config: the list of subreddits and subreddits.txt                       *)
(***************************************************************************)

\* bound: length of the text of a message sent to the bot
MaxText == 3

\* bound: length up to which the "Add" handler lets the list grow
MaxSubs == 2

\* the characters of a message text: a letter, the separator of
\* _process_subreddit_update, the separator of _process_add_subreddit, and
\* the line break
TextChars == {"a", ",", " ", NL}

MessageTexts == UNION { [1..n -> TextChars] : n \in 0..MaxText }

\* subreddits.txt with the text t, and no subreddits.txt
Stored(t) == [exists |-> TRUE, text |-> t]

MissingFile == [exists |-> FALSE, text |-> << >>]

\* `x in list`
InList(x, list) == \E i \in 1..Len(list) : list[i] = x

\* list.remove(x) for an x in the list: the first occurrence is removed
RECURSIVE RemoveFirst(_, _)
RemoveFirst(list, x) ==
    IF list = << >> THEN << >>
    ELSE IF Head(list) = x THEN Tail(list)
    ELSE << Head(list) >> \o RemoveFirst(Tail(list), x)

\* line 71: the text _save_subreddits writes
SavedText(list) == join(list, NL)

\* lines 59-65: the list _load_subreddits reads; iterating the file yields
\* its lines, and a line that is empty after strip() is dropped (as is the
\* empty piece after a final line break)
LoadSubreddits(f) ==
    IF f.exists THEN StrippedNonEmpty(split(f.text, NL))
    ELSE DefaultSubreddits

\* lines 68-71: _save_subreddits writes the list, or f.write raises after
\* open(..., 'w') has emptied subreddits.txt (an error of open itself, which
\* leaves the file as it was, is not modelled)
SaveSubreddits(list) ==
    \/ /\ subreddits_file' = Stored(SavedText(list))
       /\ config_save_failed' = FALSE
    \/ /\ subreddits_file' = Stored(<< >>)
       /\ config_save_failed' = TRUE

\* the names in a list
Names(list) == { list[i] : i \in 1..Len(list) }

\* lines 473-499: the thread r is inside its for loop, the iterator over
\* the list exists and is not exhausted
Iterating(r) ==
    /\ run[r].sub_it >= 1
    /\ run[r].pc \notin {"idle", "final", "done", "dead"}

\* the threads when config.subreddits becomes new_list.  append and remove
\* change the list object in place, under the iterators that walk it; an
\* assignment binds the attribute to a new object and the iterators keep
\* the old one, which nothing changes any more
AfterReconfig(new_list, rebinds) ==
    [r \in Runs |->
        IF Iterating(r)
        THEN [run[r] EXCEPT
                 !.common = @ \cap Names(new_list),
                 !.iterated = IF rebinds /\ @.bound
                              THEN [bound |-> FALSE, items |-> subreddits]
                              ELSE @]
        ELSE run[r]]

\* lines 101-105
add_subreddit(subreddit) ==
    IF ~InList(subreddit, subreddits)
    THEN /\ subreddits' = Append(subreddits, subreddit)
         /\ run' = AfterReconfig(Append(subreddits, subreddit), FALSE)
         /\ SaveSubreddits(Append(subreddits, subreddit))
    ELSE UNCHANGED << subreddits, run, subreddits_file, config_save_failed >>

\* lines 107-111
remove_subreddit(subreddit) ==
    IF InList(subreddit, subreddits)
    THEN /\ subreddits' = RemoveFirst(subreddits, subreddit)
         /\ run' = AfterReconfig(RemoveFirst(subreddits, subreddit), FALSE)
         /\ SaveSubreddits(RemoveFirst(subreddits, subreddit))
    ELSE UNCHANGED << subreddits, run, subreddits_file, config_save_failed >>

\* lines 113-116
set_subreddits(list) ==
    /\ subreddits' = list
    /\ run' = AfterReconfig(list, TRUE)
    /\ SaveSubreddits(list)

\* the handlers below leave the ledger and the splitter alone
HandlerFrame ==
    /\ UNCHANGED << processed_posts, file, lock, save_error_logged, hpc,
                    crashes, returned, accepted_before >>
    /\ UNCHANGED analyzeVars
    /\ UNCHANGED << orig, text, parts, part_i, sent_texts, spc >>

\* lines 409-420: the reply to "Replace All" is split at the commas
ProcessSubredditUpdate(message_text) ==
    /\ LET new == StrippedNonEmpty(split(message_text, ","))
       IN  IF new = << >>
           THEN UNCHANGED << subreddits, run, subreddits_file,
                             config_save_failed >>
           ELSE set_subreddits(new)
    /\ HandlerFrame

\* lines 422-435: the reply to "Add"; its first word is the name
ProcessAddSubreddit(message_text) ==
    /\ LET subreddit == split(strip(message_text), " ")[1]
       IN  IF subreddit = << >> \/ InList(subreddit, subreddits)
           THEN UNCHANGED << subreddits, run, subreddits_file,
                             config_save_failed >>
           ELSE /\ Len(subreddits) < MaxSubs
                /\ add_subreddit(subreddit)
    /\ HandlerFrame

\* lines 355-359, 393-398: a "delete_sub_<name>" button of a remove menu is
\* pressed; the menu may be older than the list
DeleteSub(subreddit) ==
    /\ remove_subreddit(subreddit)
    /\ HandlerFrame

\* lines 534, 41-66: Config() of a restarted process loads the list; when
\* subreddits.txt is missing the defaults are used and saved
ConfigReload ==
    /\ subreddits' = LoadSubreddits(subreddits_file)
    /\ IF subreddits_file.exists
       THEN /\ UNCHANGED subreddits_file
            /\ config_save_failed' = FALSE
       ELSE SaveSubreddits(DefaultSubreddits)

\* the configuration of a process constructed over subreddits.txt as the
\* process wrote it for `list`
ConfigLoaded(list) ==
    /\ subreddits = list
    /\ subreddits_file = Stored(SavedText(list))
    /\ config_save_failed = FALSE

(***************************************************************************)
(* RedditAnalyzer.analyze_posts_batch as a function of its argument and of *)
(* what the summarization service does                                     *)
(***************************************************************************)

\* line 255: the text before {e} in the value returned for an openai.APIError
ApiErrorPrefix ==
    << "E", "r", "r", "o", "r", ":", " ", "C", "o", "u", "l", "d", " ",
       "n", "o", "t", " ", "a", "n", "a", "l", "y", "z", "e", " ", "p",
       "o", "s", "t", "s", " ", "d", "u", "e", " ", "t", "o", " ", "a",
       "n", " ", "A", "I", " ", "A", "P", "I", " ", "e", "r", "r", "o",
       "r", ":", " " >>

\* line 258: the value returned for any other exception
UnexpectedErrorText ==
    << "E", "r", "r", "o", "r", ":", " ", "A", "n", " ", "u", "n", "e",
       "x", "p", "e", "c", "t", "e", "d", " ", "e", "r", "r", "o", "r",
       " ", "o", "c", "c", "u", "r", "r", "e", "d", " ", "d", "u", "r",
       "i", "n", "g", " ", "a", "n", "a", "l", "y", "s", "i", "s",
       "." >>

\* Optional[str]: None, or a str
PyNone == [none |-> TRUE, text |-> << >>]

PyStr(t) == [none |-> FALSE, text |-> t]

\* bound: length of the texts the service answers with
MaxContent == 2

\* response.choices[0].message.content: short texts of a letter, blanks and
\* line breaks, and texts that read like the function's own error value
Contents ==
    UNION { [1..n -> {"s", " ", NL}] : n \in 0..MaxContent }
        \cup { UnexpectedErrorText, UnexpectedErrorText \o << NL >> }

\* str(e) of the exception the service raised
ErrorMessages == { << "e" >>, << "4", "2", "9" >> }

\* what chat.completions.create does: it returns a response, raises
\* openai.APIError, or raises another exception
ServiceOutcomes ==
    [raises : {"none"}, content : Contents, message : {<< >>}]
        \cup [raises : {"APIError", "Exception"}, content : {<< >>},
              message : ErrorMessages]

NoService == [raises |-> "none", content |-> << >>, message |-> << >>]

\* the arguments: lists of up to MaxListed posts
Batches == UNION { [1..n -> Ids] : n \in 0..MaxListed }

\* lines 207-258: the value returned and the number of service calls made
analyze_posts_batch(posts, svc) ==
    IF posts = << >>
    THEN [value |-> PyNone, calls |-> 0]
    ELSE IF svc.raises = "none"
    THEN LET analysis == strip(svc.content)
         IN  [value |-> IF analysis # << >> THEN PyStr(analysis) ELSE PyNone,
              calls |-> 1]
    ELSE IF svc.raises = "APIError"
    THEN [value |-> PyStr(ApiErrorPrefix \o svc.message), calls |-> 1]
    ELSE [value |-> PyStr(UnexpectedErrorText), calls |-> 1]

\* line 228: the number of comments of a post the prompt takes
TopComments == 8

\* bound: number of comments of a post (fetch_posts keeps at most 15)
MaxComments == 9

\* comment['score'] values, Reddit scores can be negative
CommentScores == {-1, 0, 1}

\* post['comments'] as fetch_posts built it (lines 175-182), in the order
\* the provider listed the comments: the n-th comment has the body n
CommentLists ==
    { [i \in 1..Len(f) |-> [body |-> i, score |-> f[i]]] :
        f \in UNION { [1..n -> CommentScores] : n \in 0..MaxComments } }

\* the same sort that puts a comment in front of the comments of its score
InsertBeforeEqual(s, x) ==
    LET k == Cardinality({ i \in 1..Len(s) : s[i].score > x.score })
    IN  SubSeq(s, 1, k) \o << x >> \o SubSeq(s, k + 1, Len(s))

\* a step of the stable sort by descending score: x, which comes later in
\* the list than every element of s, goes behind the elements of s that
\* have at least its score
InsertComment(s, x) ==
    LET k == Cardinality({ i \in 1..Len(s) : s[i].score >= x.score })
    IN  SubSeq(s, 1, k) \o << x >> \o SubSeq(s, k + 1, Len(s))

\* line 227: sorted(post['comments'], key=lambda x: x['score'], reverse=True)
RECURSIVE sorted_comments(_)
sorted_comments(comments) ==
    IF comments = << >> THEN << >>
    ELSE InsertComment(sorted_comments(Prefix(comments, Len(comments) - 1)),
                       comments[Len(comments)])

\* no prompt under construction
NoPrompt ==
    /\ post_comments = << >>
    /\ top_comments = << >>

\* no call of analyze_posts_batch under observation
NoAnalyzeCall ==
    /\ batch = << >>
    /\ service = NoService
    /\ analysis_value = PyNone
    /\ service_calls = 0
    /\ apc = "none"
    /\ NoPrompt

(***************************************************************************)
(* TelegramBot._send_long_message                                          *)
(***************************************************************************)

\* lines 440-442: a text that fits is sent as it is
SendShort ==
    /\ spc = "entry"
    /\ Len(text) <= max_length
    /\ sent_texts' = Append(sent_texts, text)
    /\ spc' = "done"
    /\ UNCHANGED << orig, text, parts, part_i >>
    /\ UNCHANGED runVars

\* line 444: parts = []
SplitBegin ==
    /\ spc = "entry"
    /\ Len(text) > max_length
    /\ parts' = << >>
    /\ spc' = "split"
    /\ UNCHANGED << orig, text, part_i, sent_texts >>
    /\ UNCHANGED runVars

\* a cut that loses the character after a hard cut
CutSkipsAfterHardCut(t) ==
    LET part == Prefix(t, max_length)
        last_newline == rfind(part, NL)
    IN  IF last_newline # -1
        THEN << Prefix(t, last_newline), Suffix(t, last_newline + 1) >>
        ELSE << Prefix(t, max_length), Suffix(t, max_length + 1) >>

\* a cut at the first line break of the prefix
CutAtFirstNewline(t) ==
    LET part == Prefix(t, max_length)
        breaks == { i \in 1..Len(part) : part[i] = NL }
        first_newline == IF breaks = {} THEN -1
                         ELSE (CHOOSE i \in breaks : \A j \in breaks : i <= j) - 1
    IN  IF first_newline # -1
        THEN << Prefix(t, first_newline), Suffix(t, first_newline + 1) >>
        ELSE << Prefix(t, max_length), Suffix(t, max_length) >>

\* lines 447-454 for a bound max_len: one cut of the splitting loop, as
\* (segment, remaining text)
CutAt(t, max_len) ==
    LET part == Prefix(t, max_len)
        last_newline == rfind(part, NL)
    IN  IF last_newline # -1
        THEN << Prefix(t, last_newline), Suffix(t, last_newline + 1) >>
        ELSE << Prefix(t, max_len), Suffix(t, max_len) >>

\* lines 447-454: one cut with the bound of the code, max_length
Cut(t) == CutAt(t, max_length)

\* lines 445-457 for a bound max_len: the list `parts` the loop ends with
RECURSIVE SplitLoop(_, _, _)
SplitLoop(ps, t, max_len) ==
    IF Len(t) = 0 THEN ps
    ELSE IF Len(t) > max_len
    THEN SplitLoop(Append(ps, CutAt(t, max_len)[1]), CutAt(t, max_len)[2],
                   max_len)
    ELSE Append(ps, t)

\* lines 445-457: the loop condition and one iteration of
\* `while len(text) > 0`
SplitStep ==
    /\ spc = "split"
    /\ IF Len(text) = 0
       THEN /\ UNCHANGED << parts, text >>
            /\ spc' = "send"
       ELSE IF Len(text) > max_length
       THEN /\ parts' = Append(parts, Cut(text)[1])
            /\ text' = Cut(text)[2]
            /\ spc' = "split"
       ELSE /\ parts' = Append(parts, text)
            /\ text' = text
            /\ spc' = "send"
    /\ UNCHANGED << orig, part_i, sent_texts >>
    /\ UNCHANGED runVars

\* lines 459-464: one iteration of the sending loop, the send succeeding
SendPart ==
    /\ spc = "send"
    /\ part_i < Len(parts)
    /\ sent_texts' = Append(sent_texts,
                            IF part_i > 0 THEN continued \o parts[part_i + 1]
                            ELSE parts[part_i + 1])
    /\ part_i' = part_i + 1
    /\ UNCHANGED << orig, text, parts, spc >>
    /\ UNCHANGED runVars

\* lines 461/463: bot.send_message raises; nothing in _send_long_message
\* catches it, so the remaining parts are not sent
SendPartRaises ==
    /\ spc = "send"
    /\ part_i < Len(parts)
    /\ spc' = "raised"
    /\ UNCHANGED << orig, text, parts, part_i, sent_texts >>
    /\ UNCHANGED runVars

\* line 459: the sending loop is exhausted
SendDone ==
    /\ spc = "send"
    /\ part_i = Len(parts)
    /\ spc' = "done"
    /\ UNCHANGED << orig, text, parts, part_i, sent_texts >>
    /\ UNCHANGED runVars

\* the process after construction (Config.__init__, RedditAnalyzer.__init__):
\* the ledger is what processed_posts.txt holds, no thread is running
InitRuns ==
    /\ file \in SUBSET Ids
    /\ processed_posts = file
    /\ lock = 0
    /\ save_error_logged = FALSE
    /\ run = [r \in Runs |-> IdleRun]
    /\ hpc = "idle"
    /\ crashes = 0
    /\ returned = [i \in Ids |-> 0]
    /\ accepted_before = {}

\* no call of _send_long_message under way
NoSplit ==
    /\ orig = << >>
    /\ text = << >>
    /\ parts = << >>
    /\ part_i = 0
    /\ sent_texts = << >>
    /\ spc = "none"

InitSplit ==
    /\ orig \in InputTexts
    /\ text = orig
    /\ parts = << >>
    /\ part_i = 0
    /\ sent_texts = << >>
    /\ spc = "entry"
    /\ InitRuns
    /\ file = {}
    /\ ConfigLoaded(DefaultSubreddits)
    /\ NoAnalyzeCall

NextSplit ==
    \/ SendShort
    \/ SplitBegin
    \/ SplitStep
    \/ SendPart
    \/ SendPartRaises
    \/ SendDone

SpecSplit == InitSplit /\ [][NextSplit]_vars

(***************************************************************************)
(* Properties of the splitter                                              *)
(***************************************************************************)

RECURSIVE Concat(_)
Concat(ps) == IF ps = << >> THEN << >> ELSE Head(ps) \o Concat(Tail(ps))

\* the segments put back together, a line break re-inserted after every
\* non-final segment shorter than max_length (a cut at a line break)
RECURSIVE Rejoin(_)
Rejoin(ps) ==
    IF ps = << >> THEN << >>
    ELSE IF Len(ps) = 1 THEN ps[1]
    ELSE ps[1] \o (IF Len(ps[1]) < max_length THEN <<NL>> ELSE << >>)
               \o Rejoin(Tail(ps))

SplitFinished == spc \in {"send", "done", "raised"} /\ Len(orig) > max_length

\* C4 (as claimed): when the splitting loop has finished, the segments
\* concatenate back to exactly the input text and each is at most max_length
\* long.
C4_SplitConcatenates ==
    SplitFinished =>
        /\ Concat(parts) = orig
        /\ \A i \in 1..Len(parts) : Len(parts[i]) <= max_length

\* C4 (amended): throughout the splitting loop the segments cut so far,
\* followed by the remaining text, give back the input once the line break
\* dropped at every line-break cut is re-inserted; when the loop has finished
\* the segments alone do; and every segment is at most max_length long.
C4_SplitRejoins ==
    /\ spc = "split" => Rejoin(Append(parts, text)) = orig
    /\ SplitFinished => Rejoin(parts) = orig
    /\ \A i \in 1..Len(parts) : Len(parts[i]) <= max_length

\* a finished split that made both a cut at a line break and a hard cut
C4_Witness ==
    /\ SplitFinished
    /\ \E i \in 1..(Len(parts) - 1) : Len(parts[i]) < max_length
    /\ \E i \in 1..(Len(parts) - 1) : Len(parts[i]) = max_length

\* where in the input text (0-based) the i-th segment begins: after the
\* earlier segments and the line breaks dropped behind those that were cut
\* at a line break
RECURSIVE Offset(_, _)
Offset(ps, i) ==
    IF i = 1 THEN 0
    ELSE Offset(ps, i - 1) + Len(ps[i - 1])
             + (IF Len(ps[i - 1]) < max_length THEN 1 ELSE 0)

\* the segments made by a cut: all of parts while the loop runs, all but the
\* last when it has ended
CutSegments ==
    IF spc = "split" THEN 1..Len(parts)
    ELSE IF SplitFinished THEN 1..(Len(parts) - 1)
    ELSE {}

\* "line1\nline2\nline3"
ExampleText ==
    << "l", "i", "n", "e", "1", NL, "l", "i", "n", "e", "2", NL,
       "l", "i", "n", "e", "3" >>

\* "line1\nline2" and "line3"
ExampleSegments ==
    << << "l", "i", "n", "e", "1", NL, "l", "i", "n", "e", "2" >>,
       << "l", "i", "n", "e", "3" >> >>

\* C16: every segment made by a cut is the text from where it begins up to
\* the last line break among the first max_length characters of what was
\* left, or, when there is no line break among them, exactly those
\* max_length characters; and the loop run with the bound 12 on
\* "line1\nline2\nline3" cuts at line breaks only, without tearing "line2".
C16_CutAtLastLineBreak ==
    /\ \A i \in CutSegments :
          LET off == Offset(parts, i)
              n == Len(parts[i])
              breaks == { k \in 1..max_length : orig[off + k] = NL }
          IN  /\ parts[i] = SubSeq(orig, off + 1, off + n)
              /\ IF breaks # {}
                 THEN n + 1 \in breaks /\ \A k \in breaks : k <= n + 1
                 ELSE n = max_length
    /\ SplitLoop(<< >>, ExampleText, 12) = ExampleSegments
    /\ \A i \in 1..Len(ExampleSegments) : Len(ExampleSegments[i]) <= 12

\* a finished split in which one cut was made at the last of several line
\* breaks and another at max_length characters
C16_Witness ==
    /\ SplitFinished
    /\ \E i \in CutSegments : \E k \in 1..Len(parts[i]) : parts[i][k] = NL
    /\ \E i \in CutSegments : Len(parts[i]) = max_length

\* C5: every text passed to bot.send_message by _send_long_message is at
\* most 4096 characters long.
C5_SentWithinLimit ==
    \A i \in 1..Len(sent_texts) : Len(sent_texts[i]) <= max_length


(***************************************************************************)
(* Threads.  TelegramBot._scheduled_analysis (the timer job) and the       *)
(* /analyze handler both run _perform_analysis on a thread of its own.     *)
(***************************************************************************)

IdleRuns == { r \in Runs : run[r].pc = "idle" }

\* thread slots are interchangeable: a new thread takes the lowest free one
FreeSlot(r) == r \in IdleRuns /\ \A q \in IdleRuns : r <= q

Started(kind) == [IdleRun EXCEPT !.pc = "start", !.kind = kind]

\* the steps of a thread leave the configuration, the handler and the crash
\* history unchanged
ConfigFrame == UNCHANGED << subreddits, subreddits_file, config_save_failed >>

RunFrame ==
    /\ UNCHANGED << hpc, crashes, accepted_before >>
    /\ ConfigFrame
    /\ UNCHANGED analyzeVars

LedgerFrame == UNCHANGED << processed_posts, file, lock, save_error_logged,
                            returned >>

\* lines 502-517: the scheduler fires _scheduled_analysis on a thread of its
\* pool (PERSONAL_CHAT_ID is set); add_job is called without max_instances,
\* so a tick that comes while the previous timer run is still executing is
\* skipped
TimerTick(r) ==
    /\ FreeSlot(r)
    /\ Cardinality(IdleRuns) > (IF hpc = "start_thread" THEN 1 ELSE 0)
    /\ \A q \in Runs : run[q].kind # "timer"
    /\ run' = [run EXCEPT ![r] = Started("timer")]
    /\ LedgerFrame /\ RunFrame /\ UNCHANGED splitVars

\* line 300 (and 339): the handler acknowledges the command
HandlerReply ==
    /\ hpc = "idle"
    /\ IdleRuns # {}
    /\ hpc' = "start_thread"
    /\ UNCHANGED << crashes, accepted_before, run >>
    /\ ConfigFrame /\ UNCHANGED analyzeVars
    /\ LedgerFrame /\ UNCHANGED splitVars

\* a hand-off that waits until no analysis thread is running
StartThreadJoining(r) ==
    /\ \A q \in Runs : run[q].pc = "idle"
    /\ run' = [run EXCEPT ![r] = Started("manual")]

\* lines 271-274: _run_analysis_in_thread creates and starts the thread
StartThread(r) ==
    run' = [run EXCEPT ![r] = Started("manual")]

\* line 301 (and 340): the handler hands off to a worker thread and returns
HandlerStartThread(r) ==
    /\ hpc = "start_thread"
    /\ FreeSlot(r)
    /\ StartThread(r)
    /\ hpc' = "idle"
    /\ UNCHANGED << crashes, accepted_before >>
    /\ ConfigFrame /\ UNCHANGED analyzeVars
    /\ LedgerFrame /\ UNCHANGED splitVars

\* the thread function has returned or raised: the thread is gone
ThreadExit(r) ==
    /\ run[r].pc \in {"done", "dead"}
    /\ run' = [run EXCEPT ![r] = IdleRun]
    /\ LedgerFrame /\ RunFrame /\ UNCHANGED splitVars

(***************************************************************************)
(* RedditAnalyzer.fetch_posts, one action per step between two points at   *)
(* which another thread can run                                            *)
(***************************************************************************)

\* what subreddit.hot can yield: stale is `time.time() - created_utc > 86400`,
\* n_comments the number of comments that pass the filter of line 177
Submissions ==
    [id : Ids, stale : BOOLEAN, score : Scores, n_comments : CommentCounts]

\* a membership test that is never true
NeverProcessed(id) == FALSE

\* line 168: submission.id in self.processed_posts
AlreadyProcessed(id) == id \in processed_posts

\* a staleness test that is never true
NeverStale(s) == FALSE

\* line 171: time.time() - submission.created_utc > 86400
Stale(s) == s.stale

\* lines 167-172: the listing yields a submission; one already in the ledger
\* or older than 24 hours is skipped
FetchNext(r) ==
    /\ run[r].pc = "fetch_next"
    /\ run[r].n_listed < MaxListed
    /\ \E s \in Submissions :
         run' = [run EXCEPT ![r] =
                   IF AlreadyProcessed(s.id) \/ Stale(s)
                   THEN [@ EXCEPT !.n_listed = @ + 1]
                   ELSE [@ EXCEPT !.n_listed = @ + 1,
                                  !.cur = [id |-> s.id, stale |-> s.stale,
                                           score |-> s.score,
                                           n_comments |-> s.n_comments],
                                  !.pc = "fetch_comments"]]
    /\ LedgerFrame /\ RunFrame /\ UNCHANGED splitVars

\* line 184: submission.score > 5 or len(comments) > 2
Engaging(submission) == submission.score > 5 \/ submission.n_comments > 2

\* an accept that replaces the ledger instead of extending it
AddReplacesLedger(r, id) == {id}

\* line 193: self.processed_posts.add(submission.id)
Add(r, id) == processed_posts \cup {id}

\* lines 174-193: the comments have been loaded and filtered; a submission
\* below the engagement threshold is dropped, any other is appended to posts
\* and, under the lock, added to the ledger
FetchComments(r) ==
    /\ run[r].pc = "fetch_comments"
    /\ IF Engaging(run[r].cur)
       THEN /\ lock = 0
            /\ processed_posts' = Add(r, run[r].cur.id)
            /\ run' = [run EXCEPT ![r] =
                         [@ EXCEPT !.posts = Append(@, run[r].cur.id),
                                   !.cur = NoSubmission,
                                   !.pc = "fetch_next"]]
       ELSE /\ UNCHANGED processed_posts
            /\ run' = [run EXCEPT ![r] =
                         [@ EXCEPT !.cur = NoSubmission, !.pc = "fetch_next"]]
    /\ UNCHANGED << file, lock, save_error_logged, returned >>
    /\ RunFrame /\ UNCHANGED splitVars

\* a provider error that escapes fetch_posts and ends the thread
ProviderErrorEscapes(r) ==
    [IdleRun EXCEPT !.pc = "dead", !.kind = run[r].kind,
                    !.exc = "ProviderError"]

\* a handler that returns the posts collected before the error
ProviderErrorReturnsPartial(r) ==
    [run[r] EXCEPT !.errors = @ \cup {[sub |-> run[r].sub_it,
                                       kind |-> "provider"]},
                   !.cur = NoSubmission, !.posts = << >>, !.n_listed = 0,
                   !.result = run[r].posts,
                   !.pc = "fetched"]

\* lines 200-205: the error is logged and fetch_posts returns []
ProviderErrorCaught(r) ==
    [run[r] EXCEPT !.errors = @ \cup {[sub |-> run[r].sub_it,
                                       kind |-> "provider"]},
                   !.cur = NoSubmission, !.posts = << >>, !.n_listed = 0,
                   !.result = << >>,
                   !.pc = "fetched"]

\* lines 164-174: the provider raises while listing or loading comments
ProviderRaises(r) ==
    /\ run[r].pc \in {"fetch_next", "fetch_comments"}
    /\ run' = [run EXCEPT ![r] = ProviderErrorCaught(r)]
    /\ LedgerFrame /\ RunFrame /\ UNCHANGED splitVars

\* lines 167, 195-198: the listing is exhausted; the ledger is saved only if
\* new posts were found
ListingEnd(r) ==
    /\ run[r].pc = "fetch_next"
    /\ run' = [run EXCEPT ![r] =
                 IF run[r].posts # << >>
                 THEN [@ EXCEPT !.n_listed = 0, !.pc = "save_open"]
                 ELSE [@ EXCEPT !.n_listed = 0, !.result = << >>,
                                !.pc = "fetched"]]
    /\ LedgerFrame /\ RunFrame /\ UNCHANGED splitVars

\* an IOError that leaves _save_processed_posts: the handler of line 203
\* makes fetch_posts return []
SaveErrorEscapes(r) ==
    [run[r] EXCEPT !.saved = "failed", !.posts = << >>, !.pc = "fetch_return"]

\* lines 158-159: the IOError is logged inside _save_processed_posts, which
\* returns normally to line 198
AfterSaveError(r) ==
    [run[r] EXCEPT !.saved = "failed", !.stored_at_open = {},
                   !.pc = "fetch_return"]

\* lines 153-155, 158-159: _save_processed_posts takes the lock and opens the
\* file for writing, which truncates it; an IOError is logged
SaveOpen(r) ==
    /\ run[r].pc = "save_open"
    /\ lock = 0
    /\ \/ /\ lock' = r
          /\ file' = {}
          /\ run' = [run EXCEPT ![r] = [@ EXCEPT !.stored_at_open = file,
                                                 !.pc = "save_write"]]
          /\ UNCHANGED save_error_logged
       \/ /\ save_error_logged' = TRUE
          /\ run' = [run EXCEPT ![r] = AfterSaveError(r)]
          /\ UNCHANGED << lock, file >>
    /\ UNCHANGED << processed_posts, returned >>
    /\ RunFrame /\ UNCHANGED splitVars

\* a save that writes only the posts the caller found
WrittenIdsOwnPosts(r) == PostIds(run[r].posts)

\* lines 156-157: every id of self.processed_posts is written
WrittenIds(r) == processed_posts

\* lines 156-159: the ids are written and the lock is released; an IOError
\* part-way leaves only some of them in the file and is logged
SaveWrite(r) ==
    /\ run[r].pc = "save_write"
    /\ lock = r
    /\ \/ /\ file' = WrittenIds(r)
          /\ run' = [run EXCEPT ![r] = [@ EXCEPT !.saved = "ok",
                                                 !.stored_at_open = {},
                                                 !.pc = "fetch_return"]]
          /\ UNCHANGED save_error_logged
       \/ /\ file' \in (SUBSET WrittenIds(r)) \ {WrittenIds(r)}
          /\ run' = [run EXCEPT ![r] = AfterSaveError(r)]
          /\ save_error_logged' = TRUE
    /\ lock' = 0
    /\ UNCHANGED << processed_posts, returned >>
    /\ RunFrame /\ UNCHANGED splitVars

\* line 198: return posts
FetchReturn(r) ==
    /\ run[r].pc = "fetch_return"
    /\ run' = [run EXCEPT ![r] = [@ EXCEPT !.result = run[r].posts,
                                           !.posts = << >>,
                                           !.saved = "none",
                                           !.pc = "fetched"]]
    /\ returned' = [i \in Ids |->
                      IF i \in PostIds(run[r].posts) /\ returned[i] < 2
                      THEN returned[i] + 1 ELSE returned[i]]
    /\ UNCHANGED << processed_posts, file, lock, save_error_logged >>
    /\ RunFrame /\ UNCHANGED splitVars

(***************************************************************************)
(* RedditAnalyzer.analyze_posts_batch and TelegramBot._perform_analysis    *)
(***************************************************************************)

\* a message delivered to the chat: what it is, for which position of the
\* source list, which part of a summary, and what kind of text it carries.
\* run[r].sent holds the messages sent since the for loop last advanced.
Msg(kind, sub, part, from) ==
    [kind |-> kind, sub |-> sub, part |-> part, from |-> from]

\* bot.send_message raises outside the try: the thread ends with the
\* exception, its locals are gone
Dies(r) == [IdleRun EXCEPT !.pc = "dead", !.kind = run[r].kind,
                           !.exc = "DeliveryError"]

\* line 468: the "Starting Analysis" message
PerformStart(r) ==
    /\ run[r].pc = "start"
    /\ \/ run' = [run EXCEPT ![r] =
                    [@ EXCEPT !.sent = Append(@, Msg("starting", 0, 0, "none")),
                              !.pc = "loop"]]
       \/ run' = [run EXCEPT ![r] = Dies(r)]
    /\ LedgerFrame /\ RunFrame /\ UNCHANGED splitVars

\* the content of the list object the for loop of r iterates
IterList(r) ==
    IF run[r].iterated.bound THEN subreddits ELSE run[r].iterated.items

\* lines 473-475, 161-165: the for loop takes the next item of the list it
\* iterates (the iterator keeps an index into the list object) and calls
\* fetch_posts, or ends
ForNext(r) ==
    /\ run[r].pc = "loop"
    /\ run' = [run EXCEPT ![r] =
                 IF run[r].sub_it < Len(IterList(r))
                 THEN [@ EXCEPT !.subreddit = IterList(r)[run[r].sub_it + 1],
                                !.sub_it = @ + 1,
                                !.common = IF run[r].sub_it = 0
                                           THEN Names(subreddits) ELSE @,
                                !.posts = << >>, !.n_listed = 0,
                                !.ledger_at_call = processed_posts,
                                !.sent = << >>,
                                !.pc = "fetch_next"]
                 ELSE [@ EXCEPT !.iterated = BoundList,
                                !.sent = << >>, !.pc = "final"]]
    /\ LedgerFrame /\ RunFrame /\ UNCHANGED splitVars

\* a report line: "none" is "r/<sub>: No new posts found.", "found" is
\* "r/<sub>: Found <found> new posts, analyzing..."; the code writes no other
ReportLine(sub, kind, found) == [sub |-> sub, kind |-> kind, found |-> found]

\* lines 476-478: an empty result is recorded and the loop continues
NoNewPosts(r) ==
    /\ run[r].pc = "fetched"
    /\ run[r].result = << >>
    /\ run' = [run EXCEPT ![r] =
                 [@ EXCEPT !.summary_lines =
                               Append(@, ReportLine(run[r].subreddit, "none", 0)),
                           !.pc = "loop"]]
    /\ LedgerFrame /\ RunFrame /\ UNCHANGED splitVars

\* lines 480-481: a non-empty result is recorded and announced
FoundPosts(r) ==
    /\ run[r].pc = "fetched"
    /\ run[r].result # << >>
    /\ LET line == ReportLine(run[r].subreddit, "found", Len(run[r].result))
       IN  \/ run' = [run EXCEPT ![r] =
                        [@ EXCEPT !.summary_lines = Append(@, line),
                                  !.sent = Append(@, Msg("found", run[r].sub_it,
                                                         0, "none")),
                                  !.pc = "analyze"]]
           \/ run' = [run EXCEPT ![r] =
                        [@ EXCEPT !.summary_lines = Append(@, line),
                                  !.result = << >>,
                                  !.pc = "except"]]
    /\ LedgerFrame /\ RunFrame /\ UNCHANGED splitVars

\* what analyze_posts_batch returns for a non-empty batch: the stripped
\* response (lines 250-251: None when it is empty), or, when the service
\* raises, an "Error: ..." string (lines 253-258)
AnalysisOutcomes ==
    { [kind |-> "summary", segs |-> n] : n \in 1..MaxSegs }
        \cup { NoAnalysis,
               [kind |-> "api_error", segs |-> 1],
               [kind |-> "error", segs |-> 1] }

\* line 483, 207-258: analyze_posts_batch
Analyze(r) ==
    /\ run[r].pc = "analyze"
    /\ \E out \in AnalysisOutcomes :
         run' = [run EXCEPT ![r] =
                   [@ EXCEPT !.analysis = out,
                             !.errors =
                                 IF out.kind \in {"api_error", "error"}
                                 THEN @ \cup {[sub |-> run[r].sub_it,
                                               kind |-> "summarization"]}
                                 ELSE @,
                             !.seg_i = 0,
                             !.pc = "deliver"]]
    /\ LedgerFrame /\ RunFrame /\ UNCHANGED splitVars

\* line 491: an exception raised in the loop body reaches the except clause;
\* posts and analysis are not used again before they are rebound
LeaveTry(r) ==
    [run[r] EXCEPT !.result = << >>, !.analysis = NoAnalysis, !.seg_i = 0,
                   !.pc = "except"]

\* line 484: `if analysis:` -- None is false, any non-empty string is true
Truthy(analysis) == analysis.kind # "none"

\* lines 487-490: no summary
NoSummary(r) ==
    /\ run[r].pc = "deliver"
    /\ ~Truthy(run[r].analysis)
    /\ \/ run' = [run EXCEPT ![r] =
                    [@ EXCEPT !.sent = Append(@, Msg("no_summary", run[r].sub_it,
                                                     0, "none")),
                              !.result = << >>, !.analysis = NoAnalysis,
                              !.pc = "loop"]]
       \/ run' = [run EXCEPT ![r] = LeaveTry(r)]
    /\ LedgerFrame /\ RunFrame /\ UNCHANGED splitVars

\* a sending loop that starts with the last segment
LastSegmentFirst(r) == run[r].analysis.segs - 1 - run[r].seg_i

\* line 459: enumerate(parts) yields the segments in the order of the split
NextSegment(r) == run[r].seg_i

\* lines 485, 459-464: _send_long_message delivers the next segment of the
\* analysis text; an exception of bot.send_message leaves the sending loop
\* and _send_long_message and reaches line 491
DeliverPart(r) ==
    /\ run[r].pc = "deliver"
    /\ Truthy(run[r].analysis)
    /\ run[r].seg_i < run[r].analysis.segs
    /\ \/ run' = [run EXCEPT ![r] =
                    [@ EXCEPT !.sent = Append(@, Msg("summary_part",
                                                     run[r].sub_it,
                                                     NextSegment(r),
                                                     run[r].analysis.kind)),
                              !.seg_i = @ + 1]]
       \/ run' = [run EXCEPT ![r] = LeaveTry(r)]
    /\ LedgerFrame /\ RunFrame /\ UNCHANGED splitVars

\* lines 486, 490: all segments sent; the posts are counted
DeliverDone(r) ==
    /\ run[r].pc = "deliver"
    /\ Truthy(run[r].analysis)
    /\ run[r].seg_i = run[r].analysis.segs
    /\ run' = [run EXCEPT ![r] =
                 [@ EXCEPT !.total_new_posts = @ + Len(run[r].result),
                           !.result = << >>, !.analysis = NoAnalysis,
                           !.seg_i = 0,
                           !.pc = "loop"]]
    /\ LedgerFrame /\ RunFrame /\ UNCHANGED splitVars

\* lines 491-493: the except clause of the loop body reports to the chat
ExceptClause(r) ==
    /\ run[r].pc = "except"
    /\ \/ run' = [run EXCEPT ![r] =
                    [@ EXCEPT !.sent = Append(@, Msg("warning", run[r].sub_it,
                                                     0, "none")),
                              !.pc = "loop"]]
       \/ run' = [run EXCEPT ![r] = Dies(r)]
    /\ LedgerFrame /\ RunFrame /\ UNCHANGED splitVars

\* lines 495-500: the final report, one line per entry of summary_lines
FinalReport(r) ==
    /\ run[r].pc = "final"
    /\ \/ run' = [run EXCEPT ![r] =
                    [@ EXCEPT !.sent = Append(@, Msg("final", 0, 0, "none")),
                              !.pc = "done"]]
       \/ run' = [run EXCEPT ![r] = Dies(r)]
    /\ LedgerFrame /\ RunFrame /\ UNCHANGED splitVars

(***************************************************************************)
(* Crash and restart (lines 531-539, 138-149): the process dies, a new one *)
(* loads the ledger from processed_posts.txt                               *)
(***************************************************************************)
Crash ==
    /\ crashes < MaxCrashes
    /\ crashes' = crashes + 1
    /\ accepted_before' = accepted_before \cup processed_posts
    /\ IF \E r \in Runs : run[r].pc = "save_write"
       THEN file' \in SUBSET processed_posts
       ELSE file' = file
    /\ processed_posts' = file'
    /\ lock' = 0
    /\ save_error_logged' = FALSE
    /\ run' = [r \in Runs |-> IdleRun]
    /\ hpc' = "idle"
    /\ returned' = [i \in Ids |-> 0]
    /\ ConfigReload
    /\ UNCHANGED analyzeVars
    /\ UNCHANGED splitVars

\* one step of the thread r
RunStep(r) ==
    \/ PerformStart(r)
    \/ ForNext(r)
    \/ FetchNext(r)
    \/ FetchComments(r)
    \/ ProviderRaises(r)
    \/ ListingEnd(r)
    \/ SaveOpen(r)
    \/ SaveWrite(r)
    \/ FetchReturn(r)
    \/ NoNewPosts(r)
    \/ FoundPosts(r)
    \/ Analyze(r)
    \/ NoSummary(r)
    \/ DeliverPart(r)
    \/ DeliverDone(r)
    \/ ExceptClause(r)
    \/ FinalReport(r)
    \/ ThreadExit(r)

(***************************************************************************)
(* Spec: one process in which timer runs and on-demand runs overlap, over  *)
(* one configured subreddit.                                               *)
(***************************************************************************)
Init == InitRuns /\ ConfigLoaded(SingleSubreddit) /\ NoAnalyzeCall /\ NoSplit

Next ==
    \/ \E r \in Runs : RunStep(r)
    \/ \E r \in Runs : TimerTick(r)
    \/ HandlerReply
    \/ \E r \in Runs : HandlerStartThread(r)

Spec == Init /\ [][Next]_vars

(***************************************************************************)
(* SpecTimer: timer runs only (no command arrives), over the default list  *)
(* of subreddits, with crashes.  The runs of one process do not overlap.   *)
(***************************************************************************)
InitTimer ==
    InitRuns /\ ConfigLoaded(DefaultSubreddits) /\ NoAnalyzeCall /\ NoSplit

NextTimer ==
    \/ \E r \in Runs : RunStep(r)
    \/ \E r \in Runs : TimerTick(r)
    \/ Crash

SpecTimer == InitTimer /\ [][NextTimer]_vars

(***************************************************************************)
(* SpecFair: timer runs over the default list in a process that does not   *)
(* crash.  A started thread is scheduled again and again, every call it    *)
(* makes returns or raises, and the timer keeps firing.                    *)
(***************************************************************************)
NextFair ==
    \/ \E r \in Runs : RunStep(r)
    \/ \E r \in Runs : TimerTick(r)

SpecFair ==
    /\ InitTimer
    /\ [][NextFair]_vars
    /\ \A r \in Runs : WF_vars(RunStep(r))
    /\ WF_vars(\E r \in Runs : TimerTick(r))

(***************************************************************************)
(* Properties of the ledger under overlapping runs (Spec)                  *)
(***************************************************************************)

\* the thread r is inside fetch_posts
InFetch(r) ==
    run[r].pc \in {"fetch_next", "fetch_comments", "save_open", "save_write",
                   "fetch_return"}

\* C1: an id that is in the ledger when fetch_posts is called is not among
\* the posts that call collects or returns, and it stays in the ledger of the
\* process, so that the same holds for every later call.
C1_DedupIdempotent ==
    \A r \in Runs :
        /\ run[r].ledger_at_call \subseteq processed_posts
        /\ PostIds(run[r].posts) \cap run[r].ledger_at_call = {}
        /\ PostIds(run[r].result) \cap run[r].ledger_at_call = {}

\* a call made with a non-empty ledger has returned a non-empty result
C1_Witness ==
    \E r \in Runs :
        /\ run[r].pc = "fetched"
        /\ run[r].ledger_at_call # {}
        /\ run[r].result # << >>

\* C2: whatever the interleaving of overlapping runs, an id is contained in
\* the result of at most one fetch_posts call.
C2_HandedToOneRun ==
    \A i \in Ids : returned[i] <= 1

\* C8: the handler of an on-demand request, once it has acknowledged the
\* command, can always hand off and return, whatever the analysis threads
\* are doing; it never waits for a run.
C8_TriggerNeverWaits ==
    hpc = "start_thread" => ENABLED (\E r \in Runs : HandlerStartThread(r))

\* an on-demand request is being handled while a timer run is in progress
C8_Witness ==
    /\ hpc = "start_thread"
    /\ \E r \in Runs : run[r].kind = "timer" /\ InFetch(r)

\* C10: the ids a fetch_posts call has returned are in the in-memory ledger,
\* and, provided no save has failed and no save is under way, in the file:
\* a later save never writes a snapshot that misses them.
C10_AcceptsNotLost ==
    \A r \in Runs :
        /\ PostIds(run[r].result) \subseteq processed_posts
        /\ (~save_error_logged /\ \A q \in Runs : run[q].pc # "save_write")
               => PostIds(run[r].result) \subseteq file

\* two overlapping calls, neither of which saw the other's id in the ledger
\* when it began, have accepted distinct ids and both have saved
C10_Witness ==
    \E r, q \in Runs :
        /\ r # q
        /\ run[r].result # << >> /\ run[q].result # << >>
        /\ PostIds(run[r].result) \cap PostIds(run[q].result) = {}
        /\ PostIds(run[r].result) \cap run[q].ledger_at_call = {}
        /\ PostIds(run[q].result) \cap run[r].ledger_at_call = {}
        /\ ~save_error_logged
        /\ PostIds(run[r].result) \cup PostIds(run[q].result) \subseteq file

\* the thread r is in, or about to make, a call to the provider (listing,
\* comments), to the summarization service or to the chat
AtExternalCall(r) ==
    run[r].pc \in {"start", "fetch_next", "fetch_comments", "fetched",
                   "analyze", "deliver", "except", "final"}

\* C17: the lock is held only while the store is written (the add takes and
\* releases it within one step), never by a thread that is at an external
\* call; and while a thread is at an external call, however long, every
\* other started thread can take its next step unless a third thread is
\* writing the store, a command can be acknowledged and the timer can start
\* a run.
C17_NoCrossRunBlocking ==
    /\ \A r \in Runs : lock = r => run[r].pc = "save_write"
    /\ \A r \in Runs :
          AtExternalCall(r) =>
              /\ lock # r
              /\ \A q \in Runs \ {r} :
                    (run[q].pc # "idle" /\ lock \in {0, q})
                        => ENABLED RunStep(q)
              /\ (IdleRuns # {} /\ hpc = "idle") =>
                    /\ ENABLED HandlerReply
                    /\ ENABLED (\E q \in Runs : TimerTick(q))

(***************************************************************************)
(* Properties of a run and of the ledger across a crash (SpecTimer)        *)
(***************************************************************************)

\* C3: an id that was in the ledger of a process that crashed is not in the
\* result of any fetch_posts call after the restart.
C3_NoReappearanceAfterCrash ==
    \A r \in Runs : PostIds(run[r].result) \cap accepted_before = {}

\* the provider raised during the current fetch_posts call of r
ProviderFailed(r) ==
    [sub |-> run[r].sub_it, kind |-> "provider"] \in run[r].errors

\* C9: when a fetch_posts call has returned without a provider error, the
\* ledger is the ledger as it was at the call together with the ids of the
\* returned posts.
C9_LedgerAfterFetch ==
    \A r \in Runs :
        (run[r].pc = "fetched" /\ ~ProviderFailed(r))
            => processed_posts = run[r].ledger_at_call \cup PostIds(run[r].result)

\* the scenario of the specification: the ledger was {abc}, the call returned
\* only def, the ledger is {abc, def}
C9_Witness ==
    \E r \in Runs :
        /\ run[r].pc = "fetched" /\ ~ProviderFailed(r)
        /\ run[r].ledger_at_call = {"abc"}
        /\ run[r].result = << "def" >>
        /\ processed_posts = {"abc", "def"}

\* C6: no provider or summarization error ends a run; a run that has sent
\* its final report has exactly one report line per configured subreddit, in
\* the configured order; and an error for the k-th subreddit lands in line k
\* (a provider error as "no new posts", a summarization error after "found").
C6_FailureIsolation ==
    \A r \in Runs :
        /\ run[r].pc = "dead" => run[r].exc = "DeliveryError"
        /\ run[r].pc = "done" =>
              /\ Len(run[r].summary_lines) = Len(subreddits)
              /\ \A i \in 1..Len(subreddits) :
                    run[r].summary_lines[i].sub = subreddits[i]
        /\ \A e \in run[r].errors :
              e.sub <= Len(run[r].summary_lines) =>
                  run[r].summary_lines[e.sub].kind =
                      (IF e.kind = "provider" THEN "none" ELSE "found")

\* a run over three subreddits has sent its final report after a provider
\* error for one subreddit and a summarization error for another
C6_Witness ==
    \E r \in Runs :
        /\ run[r].pc = "done"
        /\ Len(run[r].summary_lines) = 3
        /\ \E e, f \in run[r].errors :
              e.kind = "provider" /\ f.kind = "summarization"

\* C7: when the summarization of a subreddit fails, the failure text is not
\* delivered as a summary, and the report line of that subreddit is an error
\* line.
C7_SummarizationFailureRecorded ==
    \A r \in Runs :
        /\ \A i \in 1..Len(run[r].sent) :
              run[r].sent[i].kind = "summary_part"
                  => run[r].sent[i].from = "summary"
        /\ \A e \in run[r].errors :
              (e.kind = "summarization" /\ run[r].pc = "done")
                  => run[r].summary_lines[e.sub].kind = "error"

(***************************************************************************)
(* Properties of the deliveries of a run (SpecTimer, SpecFair)             *)
(***************************************************************************)

\* the thread r is about to send a segment that is not the last of a summary
MoreSegments(r) ==
    /\ run[r].pc = "deliver"
    /\ Truthy(run[r].analysis)
    /\ run[r].seg_i + 1 < run[r].analysis.segs

\* C11: when the delivery of a segment of a summary fails, the run goes on:
\* whatever happens to a segment that is not the last one, the next step of
\* the run (in a process that stays up) is at the sending loop again, ready
\* to attempt the following segment.
C11_DeliveryErrorContinues ==
    [][\A r \in Runs :
          (MoreSegments(r) /\ run'[r] # run[r] /\ crashes' = crashes)
              => /\ run'[r].pc = "deliver"
                 /\ run'[r].seg_i = run[r].seg_i + 1]_vars

IsSummaryPart(m) == m.kind = "summary_part"

\* the segments of the current subreddit's summary that r has sent so far
SummaryParts(r) == SelectSeq(run[r].sent, IsSummaryPart)

\* C12: within a run the subreddits are taken in configured order (the k-th
\* report line is for the k-th configured subreddit and is written while the
\* k-th subreddit is the current one); while fetch_posts runs for a
\* subreddit nothing has been delivered for it and every earlier subreddit
\* has its report line; every message delivered since the loop advanced is
\* for the current subreddit; and the segments of its summary are sent in
\* the order of the split.
C12_RunOrder ==
    \A r \in Runs :
        /\ \A i \in 1..Len(run[r].summary_lines) :
              run[r].summary_lines[i].sub = subreddits[i]
        /\ Len(run[r].summary_lines) \in {run[r].sub_it - 1, run[r].sub_it}
        /\ InFetch(r) =>
              /\ run[r].sent = << >>
              /\ Len(run[r].summary_lines) = run[r].sub_it - 1
              /\ run[r].subreddit = subreddits[run[r].sub_it]
        /\ \A i \in 1..Len(run[r].sent) :
              run[r].sent[i].sub \in {0, run[r].sub_it}
        /\ \A k \in 1..Len(SummaryParts(r)) : SummaryParts(r)[k].part = k - 1

\* a run has sent both segments of the summary of its second subreddit
C12_Witness ==
    \E r \in Runs :
        /\ run[r].sub_it = 2
        /\ Len(run[r].summary_lines) = 2
        /\ Len(SummaryParts(r)) = 2

\* C14: a provider error never leaves fetch_posts: the call returns an empty
\* list, whatever it had collected, the run is neither in its except clause
\* nor ended, and it records "no new posts" for that subreddit and goes on.
C14_FetchFailsSoft ==
    \A r \in Runs :
        /\ run[r].exc # "ProviderError"
        /\ ProviderFailed(r) =>
              /\ run[r].result = << >>
              /\ run[r].pc \in {"fetched", "loop", "final", "done"}
              /\ run[r].pc # "fetched" =>
                    run[r].summary_lines[run[r].sub_it] =
                        ReportLine(subreddits[run[r].sub_it], "none", 0)

\* the provider failed for the first subreddit after a post of it had been
\* accepted, and the run is fetching the second subreddit
C14_Witness ==
    \E r \in Runs :
        /\ run[r].sub_it = 2 /\ InFetch(r)
        /\ [sub |-> 1, kind |-> "provider"] \in run[r].errors
        /\ run[r].summary_lines = << ReportLine(subreddits[1], "none", 0) >>
        /\ run[r].ledger_at_call # file

\* C15: every run that starts eventually sends its completion message.
C15_RunDeliversReport ==
    \A r \in Runs : (run[r].pc = "start") ~> (run[r].pc = "done")

\* C18: when _save_processed_posts has returned, with or without an IOError,
\* the lock is free, the call still has its posts to return, the in-memory
\* ledger holds them and everything it held at the call, a failure is in the
\* log, and a save that succeeded has written the whole in-memory ledger.
C18_PersistFailureKept ==
    \A r \in Runs :
        run[r].pc = "fetch_return" =>
            /\ lock = 0
            /\ run[r].posts # << >>
            /\ PostIds(run[r].posts) \cup run[r].ledger_at_call
                   \subseteq processed_posts
            /\ run[r].saved \in {"ok", "failed"}
            /\ run[r].saved = "failed" => save_error_logged
            /\ run[r].saved = "ok" => file = processed_posts

\* the save for abc failed; the next call accepted def and its save wrote
\* both
C18_Witness ==
    \E r \in Runs :
        /\ run[r].pc = "fetch_return"
        /\ run[r].saved = "ok"
        /\ save_error_logged
        /\ run[r].ledger_at_call = {"abc"}
        /\ run[r].posts = << "def" >>
        /\ file = {"abc", "def"}

(***************************************************************************)
(* SpecConfig: the subreddit manager.  The handlers that change the list   *)
(* of subreddits, one at a time, and restarts of the process.              *)
(***************************************************************************)

\* subreddits.txt as the first process finds it: missing, written by an
\* earlier process, or edited by hand with a line break at the end
InitialStores ==
    { MissingFile,
      Stored(SavedText(SingleSubreddit)),
      Stored(SavedText(SingleSubreddit) \o << NL >>),
      Stored(SavedText(DefaultSubreddits)) }

\* lines 41-66: the configuration after Config.__init__
InitConfig ==
    /\ \E f \in InitialStores :
          /\ subreddits = LoadSubreddits(f)
          /\ subreddits_file =
                 IF f.exists THEN f ELSE Stored(SavedText(DefaultSubreddits))
    /\ config_save_failed = FALSE
    /\ InitRuns
    /\ file = {}
    /\ NoAnalyzeCall
    /\ NoSplit

NextConfig ==
    \/ \E message_text \in MessageTexts : ProcessSubredditUpdate(message_text)
    \/ \E message_text \in MessageTexts : ProcessAddSubreddit(message_text)
    \/ \E i \in 1..Len(subreddits) : DeleteSub(subreddits[i])
    \/ DeleteSub(Python)
    \/ Crash

SpecConfig == InitConfig /\ [][NextConfig]_vars

\* C13: no name occurs twice in the list of subreddits.
C13_NoDuplicateSubreddits ==
    \A i, j \in 1..Len(subreddits) : i # j => subreddits[i] # subreddits[j]

\* C19: unless the last save raised, what a restart would load from
\* subreddits.txt is the list in memory, in the same order.
C19_StoredListIsList ==
    ~config_save_failed => LoadSubreddits(subreddits_file) = subreddits

(***************************************************************************)
(* SpecAnalyze: one call of analyze_posts_batch for every batch and every  *)
(* behaviour of the summarization service.                                 *)
(***************************************************************************)
InitAnalyze ==
    /\ batch \in Batches
    /\ service \in ServiceOutcomes
    /\ analysis_value = PyNone
    /\ service_calls = 0
    /\ apc = "call"
    /\ NoPrompt
    /\ InitRuns
    /\ file = {}
    /\ ConfigLoaded(DefaultSubreddits)
    /\ NoSplit

\* line 483: analysis = self.reddit_analyzer.analyze_posts_batch(posts)
AnalyzeCall ==
    /\ apc = "call"
    /\ analysis_value' = analyze_posts_batch(batch, service).value
    /\ service_calls' = analyze_posts_batch(batch, service).calls
    /\ apc' = "returned"
    /\ UNCHANGED << batch, service, post_comments, top_comments >>
    /\ UNCHANGED << processed_posts, file, lock, save_error_logged, run, hpc,
                    crashes, returned, accepted_before >>
    /\ ConfigFrame
    /\ UNCHANGED << orig, text, parts, part_i, sent_texts, spc >>

NextAnalyze == AnalyzeCall

SpecAnalyze == InitAnalyze /\ [][NextAnalyze]_vars

\* the values analyze_posts_batch can return when the service answers
SummaryValues ==
    { analyze_posts_batch(b, o).value :
        b \in Batches \ {<< >>},
        o \in { x \in ServiceOutcomes : x.raises = "none" } }

\* C20: a call of analyze_posts_batch returns a value in every case; for an
\* empty batch it is None and the service was not called; for a non-empty
\* batch the service was called once and the value is the stripped answer,
\* None when that is empty, and, when the service failed, a value that no
\* call with an answering service returns.
C20_AnalyzeNeverRaises ==
    apc = "returned" =>
        /\ batch = << >> => (analysis_value = PyNone /\ service_calls = 0)
        /\ batch # << >> =>
              /\ service_calls = 1
              /\ service.raises = "none" =>
                    analysis_value =
                        (IF strip(service.content) = << >> THEN PyNone
                         ELSE PyStr(strip(service.content)))
              /\ service.raises # "none" =>
                    /\ ~analysis_value.none
                    /\ analysis_value \notin SummaryValues

(***************************************************************************)
(* SpecPrompt: the comments analyze_posts_batch puts into the prompt for   *)
(* one post, for every list of comments up to MaxComments.                 *)
(***************************************************************************)
InitPrompt ==
    /\ post_comments \in CommentLists
    /\ top_comments = << >>
    /\ batch = << >>
    /\ service = NoService
    /\ analysis_value = PyNone
    /\ service_calls = 0
    /\ apc = "prompt"
    /\ InitRuns
    /\ file = {}
    /\ ConfigLoaded(DefaultSubreddits)
    /\ NoSplit

\* lines 227-229: one iteration of the loop over the posts of the batch
PromptComments ==
    /\ apc = "prompt"
    /\ top_comments' = Prefix(sorted_comments(post_comments), TopComments)
    /\ apc' = "prompted"
    /\ UNCHANGED << batch, service, analysis_value, service_calls,
                    post_comments >>
    /\ UNCHANGED << processed_posts, file, lock, save_error_logged, run, hpc,
                    crashes, returned, accepted_before >>
    /\ ConfigFrame
    /\ UNCHANGED << orig, text, parts, part_i, sent_texts, spc >>

NextPrompt == PromptComments

SpecPrompt == InitPrompt /\ [][NextPrompt]_vars

\* a comes before b in the order by descending score, provider order for
\* equal scores
RanksBefore(a, b) ==
    \/ a.score > b.score
    \/ a.score = b.score /\ a.body < b.body

\* C21: the comments written for a post are comments of the post, as many
\* as it has up to 8, each ranking before the next by descending score and,
\* for equal scores, provider order, and every comment left out ranks after
\* all of them.
C21_TopCommentsByScore ==
    apc = "prompted" =>
        /\ Len(top_comments) =
               (IF Len(post_comments) < 8 THEN Len(post_comments) ELSE 8)
        /\ \A i \in 1..Len(top_comments) :
               \E j \in 1..Len(post_comments) :
                   top_comments[i] = post_comments[j]
        /\ \A i \in 1..(Len(top_comments) - 1) :
               RanksBefore(top_comments[i], top_comments[i + 1])
        /\ \A j \in 1..Len(post_comments) :
               (\A i \in 1..Len(top_comments) :
                    top_comments[i] # post_comments[j])
               => RanksBefore(top_comments[Len(top_comments)],
                              post_comments[j])

\* nine comments, the last two and the first with the highest score, the
\* rest with equal lower scores: the prompt has the three, then five of the
\* others in provider order, and leaves the last of the others out
C21_Witness ==
    /\ apc = "prompted"
    /\ Len(post_comments) = 9
    /\ \A j \in 1..9 :
           post_comments[j].score = (IF j \in {1, 8, 9} THEN 1 ELSE 0)
    /\ [i \in 1..8 |-> top_comments[i].body] = << 1, 8, 9, 2, 3, 4, 5, 6 >>

(***************************************************************************)
(* SpecTimer: the filters and the ledger writes of fetch_posts             *)
(***************************************************************************)

\* the step of r skips the submission the listing yielded (lines 169, 172)
SkipsListed(r) ==
    /\ run[r].pc = "fetch_next"
    /\ run'[r].pc = "fetch_next"
    /\ run'[r].n_listed = run[r].n_listed + 1

\* C22: while the process stays up, fetch_posts appends to its posts only a
\* submission that is not older than 24 hours and has a score above 5 or
\* more than 2 comments, and returns just these posts; the ledger grows only
\* by such a submission; a step that skips a listed submission or drops one
\* below the engagement threshold leaves posts and ledger as they are, and
\* the dropped submission is not in the ledger.
C22_OnlyFreshAndEngaging ==
    [][crashes' = crashes =>
         \A r \in Runs :
            /\ (run'[r].posts # run[r].posts /\ run'[r].posts # << >>) =>
                  /\ run[r].pc = "fetch_comments"
                  /\ ~run[r].cur.stale
                  /\ run[r].cur.score > 5 \/ run[r].cur.n_comments > 2
                  /\ run'[r].posts = Append(run[r].posts, run[r].cur.id)
            /\ (run'[r].result # run[r].result /\ run'[r].result # << >>) =>
                  /\ run[r].pc = "fetch_return"
                  /\ run'[r].result = run[r].posts
            /\ processed_posts' # processed_posts =>
                  \E q \in Runs :
                     /\ run[q].pc = "fetch_comments"
                     /\ ~run[q].cur.stale
                     /\ run[q].cur.score > 5 \/ run[q].cur.n_comments > 2
                     /\ processed_posts' =
                            processed_posts \cup {run[q].cur.id}
            /\ SkipsListed(r) =>
                  /\ processed_posts' = processed_posts
                  /\ run'[r].posts = run[r].posts
            /\ (/\ run[r].pc = "fetch_comments"
                /\ run[r].cur.score <= 5
                /\ run[r].cur.n_comments <= 2
                /\ run'[r] # run[r]) =>
                  /\ processed_posts' = processed_posts
                  /\ run[r].cur.id \notin processed_posts'
                  /\ run[r].cur.id \notin PostIds(run'[r].posts)]_vars

\* with an empty ledger, both submissions the listing yielded were discarded
\* by the staleness or the engagement filter, and none was accepted
C22_Witness ==
    \E r \in Runs :
        /\ run[r].pc = "fetch_next"
        /\ run[r].n_listed = 2
        /\ run[r].posts = << >>
        /\ run[r].sub_it = 1
        /\ processed_posts = {}
        /\ file = {}
        /\ crashes = 0

\* C23: when a fetch_posts call has returned, with or without a provider
\* error, every id the ledger gained since the call began is an id of a
\* returned post.
C23_AcceptedAreReturned ==
    \A r \in Runs :
        run[r].pc = "fetched" =>
            (processed_posts \ run[r].ledger_at_call)
                \subseteq PostIds(run[r].result)

\* C24: when the process crashes while a save is under way, every id that
\* was in processed_posts.txt when the save opened it is in the file the
\* next process loads.
C24_CrashKeepsStored ==
    [][crashes' # crashes =>
          \A r \in Runs :
              run[r].pc = "save_write" => run[r].stored_at_open \subseteq file']_vars

(***************************************************************************)
(* SpecReconfig: timer runs while the handlers of the subreddit manager    *)
(* change the list.  telebot runs the handlers on worker threads, so a     *)
(* handler can run between any two steps of an analysis thread.            *)
(***************************************************************************)

\* the list the process starts with: subreddits.txt holds two names
TwoSubreddits == << Python, MachineLearning >>

\* the process starts with an empty ledger
InitReconfig ==
    /\ InitRuns
    /\ file = {}
    /\ ConfigLoaded(TwoSubreddits)
    /\ NoAnalyzeCall
    /\ NoSplit

\* replies to "Replace All": a name in use
ReplaceTexts == { Python }

\* replies to "Add": a new name
AddTexts == { << "a" >> }

NextReconfig ==
    \/ \E r \in Runs : RunStep(r)
    \/ \E r \in Runs : TimerTick(r)
    \/ \E message_text \in ReplaceTexts : ProcessSubredditUpdate(message_text)
    \/ \E message_text \in AddTexts : ProcessAddSubreddit(message_text)
    \/ \E i \in 1..Len(subreddits) : DeleteSub(subreddits[i])

SpecReconfig == InitReconfig /\ [][NextReconfig]_vars

\* C25: a run that has sent its final report has exactly one report line
\* for every name that was in the list of subreddits from the beginning of
\* its for loop on, whatever the handlers did to the list meanwhile.
C25_CommonSourcesOnce ==
    \A r \in Runs :
        run[r].pc = "done" =>
            \A n \in run[r].common :
                Cardinality({ i \in 1..Len(run[r].summary_lines) :
                                 run[r].summary_lines[i].sub = n }) = 1

(***************************************************************************)
(* SpecSplit: empty segments                                               *)
(***************************************************************************)

\* C26: for a text longer than max_length no segment the splitting loop
\* appends to parts is empty, and no text passed to bot.send_message is.
C26_NoEmptySegment ==
    Len(orig) > max_length =>
        /\ \A i \in 1..Len(parts) : parts[i] # << >>
        /\ \A i \in 1..Len(sent_texts) : sent_texts[i] # << >>

====
